---- MODULE Spec2Model ----
(***************************************************************************)
(* Task acceptance and notification fan-out of the marketplace server.     *)
(*                                                                         *)
(* The store (tasks, notifications) is shared by concurrently running      *)
(* request handlers.  Every handler is cut at its awaits on the mutable    *)
(* store: one action per store access, the synchronous code around the     *)
(* access belonging to the same action.  Reads of the provider and user    *)
(* directories, which no modelled request changes, are folded into the     *)
(* neighbouring step.                                                      *)
(*                                                                         *)
(* The push channel (WebSocketService) keeps the mapping from user id to   *)
(* open sockets; upgrades, close events, pongs and the heartbeat interval  *)
(* are its actions, and the fan-out writes to the sockets it finds there.  *)
(***************************************************************************)
EXTENDS Integers, Sequences, FiniteSets, TLC

\* ------------------------------------------------------------------ bounds
MaxTasks    == 1      \* tasks ever created
MaxRequests == 3      \* HTTP requests ever issued
MaxInflight == 2      \* requests being handled at the same time
MaxConns    == 2      \* upgrade requests ever received
MaxTicks    == 3      \* heartbeat ticks a silent connection is followed for
MaxOpens    == 2      \* opens of the hook's socket that are followed

\* --------------------------------------------------------------- JS values
Null      == 0        \* null (ids are serial, they start at 1)
Absent    == -1       \* a property the object does not carry
Undefined == -2       \* the value of reading such a property
NoUser    == 0        \* req.isAuthenticated() is false

\* ------------------------------------------------------------- directories
\* service_providers rows: the columns of the table, nothing else.
serviceProviders ==
  { [id |-> 1, userId |-> 11, categoryId |-> 1],
    [id |-> 2, userId |-> 12, categoryId |-> 1],
    [id |-> 3, userId |-> 13, categoryId |-> 2] }

ClientUser  == 20
Users       == {p.userId : p \in serviceProviders} \cup {ClientUser}
Categories  == {p.categoryId : p \in serviceProviders}
ProviderIds == {p.id : p \in serviceProviders}

NoProvider  == [id |-> 0, userId |-> 0, categoryId |-> 0]

getServiceProviderByUserId(userId) ==
  IF \E p \in serviceProviders : p.userId = userId
    THEN CHOOSE p \in serviceProviders : p.userId = userId
    ELSE NoProvider

getServiceProvidersByCategory(categoryId) ==
  {p \in serviceProviders : p.categoryId = categoryId}

getUser(id) == IF id \in Users THEN id ELSE Undefined

\* -------------------------------------------------------------------- data
taskStatuses == {"open", "accepted", "in-progress", "completed", "cancelled"}

NEW_TASK       == "new_task"
TASK_ACCEPTED  == "task_accepted"
TASK_CANCELLED == "task_cancelled"

TitleNewTask     == "New Task Available"
TitleAccepted    == "Task Accepted"
TitleUnavailable == "Task No Longer Available"

NoTask == [id |-> 0, clientId |-> 0, categoryId |-> 0, status |-> "none",
           acceptedById |-> Null, acceptedAt |-> Null, completedAt |-> Null]

\* What res.status(400).json(...) returns: the response object, which has
\* none of a task's properties.
ResObject == [id |-> Undefined, clientId |-> Undefined,
              categoryId |-> Undefined, status |-> "res",
              acceptedById |-> Undefined, acceptedAt |-> Undefined,
              completedAt |-> Undefined]

VARIABLES
  tasks,          \* the tasks table: a sequence, a task's id is its index
  notifications,  \* the notifications table, in insertion order
  reqs,           \* the requests being handled, with their handler state
  issued,         \* how many requests have been issued: the clock
  attempts,       \* history: per task id, the accept transactions run on it
  conns,          \* the sockets that asked for an upgrade, by arrival
  clients,        \* WebSocketService.clients: user id -> its connections
  pushed,         \* the messages written to sockets by client.send
  completedJobs,  \* service_providers.completed_jobs, by provider id
  hook            \* the browser's NotificationsProvider effect

vars == <<tasks, notifications, reqs, issued, attempts, conns, clients, pushed,
          completedJobs, hook>>

Slots == 1..MaxInflight

\* ---------------------------------------------------------------- requests
NoBody == [status |-> "absent", acceptedById |-> Absent]

Idle ==
  [kind |-> "idle", actor |-> NoUser, taskId |-> 0, pc |-> "idle",
   response |-> "none", secondResponse |-> FALSE,
   task |-> NoTask, provider |-> NoProvider, updatedTask |-> NoTask,
   body |-> NoBody, seen |-> NoTask, reachedTx |-> FALSE,
   committed |-> FALSE, created |-> 0, connected |-> {}]

NewReq(kind, actor, taskId) ==
  [kind |-> kind, actor |-> actor, taskId |-> taskId, pc |-> "done",
   response |-> "none", secondResponse |-> FALSE,
   task |-> NoTask, provider |-> NoProvider, updatedTask |-> NoTask,
   body |-> NoBody,
   \* history, not read by any handler: the task as it was in the store
   \* when the request arrived, and what the handler did
   seen |-> NoTask, reachedTx |-> FALSE, committed |-> FALSE,
   created |-> 0,
   \* history: the recipients that had an OPEN socket in the connection
   \* mapping when the handler pushed
   connected |-> {}]

\* A request arrives and is handled in slot r, the first free one: the
\* slots are interchangeable.
Issue(r, rq) ==
  /\ issued < MaxRequests
  /\ reqs[r] = Idle
  /\ \A q \in Slots : q < r => reqs[q] # Idle
  /\ reqs' = [reqs EXCEPT ![r] = rq]
  /\ issued' = issued + 1
  /\ UNCHANGED <<attempts, conns, clients, pushed,
               completedJobs, hook>>

\* The handler that never answers.
RespondNever(rq, what) == rq

\* res.status(..).json(..) / next(err): the first one is what the caller
\* receives, a later one finds the headers already sent.
Respond(rq, what) ==
  IF rq.response = "none" THEN [rq EXCEPT !.response = what]
  ELSE [rq EXCEPT !.secondResponse = TRUE]

\* The handler returns: its locals are gone, what it answered stays until
\* the connection is released.
Return(rq) ==
  [rq EXCEPT !.pc = "done", !.task = NoTask, !.provider = NoProvider,
             !.updatedTask = NoTask, !.body = NoBody]

getTask(id) == IF id \in 1..Len(tasks) THEN tasks[id] ELSE NoTask

\* The test on the caller with every caller let through.
isAuthenticatedAlways(actor) == TRUE

\* req.isAuthenticated(): the auth middleware has put a user on the request.
isAuthenticated(actor) == actor # NoUser

\* { ...task, ...taskData }: the properties the body carries replace the
\* task's, whatever they are.
updateTask(task, taskData) ==
  [task EXCEPT
     !.status = IF taskData.status = "absent" THEN @ ELSE taskData.status,
     !.acceptedById = IF taskData.acceptedById = Absent THEN @
                      ELSE taskData.acceptedById,
     !.acceptedAt = IF "acceptedAt" \in DOMAIN taskData
                      THEN taskData.acceptedAt ELSE @,
     !.completedAt = IF "completedAt" \in DOMAIN taskData
                       THEN taskData.completedAt ELSE @]

\* ------------------------------------------------------- the push channel
ConnIds == 1..MaxConns

\* The token of the upgrade request's query string; "" is no token at all.
NoToken == ""
Tokens  == {NoToken, "stale", "t11", "t12"}

NoSession == [userId |-> Undefined]

\* storage.getSession: the session a token names, when it names one.
getSession(token) ==
  IF token = "t11" THEN [userId |-> 11]
  ELSE IF token = "t12" THEN [userId |-> 12]
  ELSE NoSession

\* A socket: what the WebSocketClient carries (userId, isAlive, readyState)
\* and, as history, the token it came with and how its peer behaves.
NoConn ==
  [readyState |-> "none", token |-> NoToken, userId |-> Undefined,
   isAlive |-> FALSE, responsive |-> TRUE, silentTicks |-> 0]

\* wss.clients: the sockets the server has upgraded and not yet seen closed.
wssClients == {c \in ConnIds : conns[c].readyState \in {"OPEN", "CLOSING"}}

RECURSIVE SetOf(_)
SetOf(seq) == IF seq = <<>> THEN {} ELSE {Head(seq)} \cup SetOf(Tail(seq))

\* Set.add: a new element goes last, one already there stays where it is.
setAdd(set, c) == IF c \in SetOf(set) THEN set ELSE Append(set, c)

\* Set.delete.
setDelete(set, c) == SelectSeq(set, LAMBDA x : x # c)

\* The sockets found in the mapping under some user id.
Mapped == UNION {SetOf(clients[u]) : u \in DOMAIN clients}

\* The upgrade test on the session with any session let through.
hasUserAlways(session) == TRUE

\* !session?.userId is what rejects the upgrade.
hasUser(session) == session.userId \notin {Undefined, Null}

\* server.on('upgrade'): the token is read and tested; without one the
\* socket is answered 401 and destroyed.
UpgradeBegin(c, token) ==
  /\ conns[c].readyState = "none"
  /\ \A d \in ConnIds : d < c => conns[d].readyState # "none"
  /\ conns' = [conns EXCEPT ![c] =
       IF token = NoToken
         THEN [@ EXCEPT !.readyState = "rejected", !.token = token]
         ELSE [@ EXCEPT !.readyState = "upgrading", !.token = token]]
  /\ UNCHANGED <<tasks, notifications, reqs, issued, attempts, clients, pushed,
               completedJobs, hook>>

\* getSession has answered: no session or no user id is a 401; otherwise
\* handleUpgrade, and the 'connection' handler puts the socket in the
\* mapping under the session's user id.
UpgradeSession(c) ==
  /\ conns[c].readyState = "upgrading"
  /\ LET session == getSession(conns[c].token) IN
     IF ~hasUser(session)
       THEN /\ conns' = [conns EXCEPT ![c].readyState = "rejected"]
            /\ UNCHANGED clients
       ELSE LET userId == session.userId IN
            /\ conns' = [conns EXCEPT ![c].readyState = "OPEN",
                                      ![c].userId = userId,
                                      ![c].isAlive = TRUE]
            /\ clients' =
                 IF userId = Undefined THEN clients
                 ELSE [u \in DOMAIN clients \cup {userId} |->
                         IF u = userId
                           THEN setAdd(IF u \in DOMAIN clients THEN clients[u]
                                       ELSE <<>>, c)
                           ELSE clients[u]]
  /\ UNCHANGED <<tasks, notifications, reqs, issued, attempts, pushed,
               completedJobs, hook>>

\* The peer closes, or the link drops: the socket is no longer OPEN, its
\* 'close' event has not been handled yet.
PeerClose(c) ==
  /\ conns[c].readyState = "OPEN"
  /\ conns' = [conns EXCEPT ![c].readyState = "CLOSING"]
  /\ UNCHANGED <<tasks, notifications, reqs, issued, attempts, clients, pushed,
               completedJobs, hook>>

\* ws.on('close'): the socket leaves its user's set, and the user's entry
\* goes when the set is left empty.
onClose(map, userId, c) ==
  IF userId \notin DOMAIN map THEN map
  ELSE LET left == setDelete(map[userId], c) IN
       IF left = <<>>
         THEN [u \in DOMAIN map \ {userId} |-> map[u]]
         ELSE [map EXCEPT ![userId] = left]

CloseEvent(c) ==
  /\ conns[c].readyState = "CLOSING"
  /\ clients' = onClose(clients, conns[c].userId, c)
  /\ conns' = [conns EXCEPT ![c].readyState = "CLOSED"]
  /\ UNCHANGED <<tasks, notifications, reqs, issued, attempts, pushed,
               completedJobs, hook>>

\* ws.on('pong').
Pong(c) ==
  /\ conns[c].readyState = "OPEN"
  /\ conns[c].responsive /\ ~conns[c].isAlive
  /\ conns' = [conns EXCEPT ![c].isAlive = TRUE]
  /\ UNCHANGED <<tasks, notifications, reqs, issued, attempts, clients, pushed,
               completedJobs, hook>>

\* The peer stops answering, for good.
StopResponding(c) ==
  /\ conns[c].readyState = "OPEN"
  /\ conns[c].responsive
  /\ conns' = [conns EXCEPT ![c].responsive = FALSE]
  /\ UNCHANGED <<tasks, notifications, reqs, issued, attempts, clients, pushed,
               completedJobs, hook>>

\* The heartbeat that never marks a socket as awaiting its pong.
heartbeatNoReset(ws) ==
  IF ~ws.isAlive THEN [ws EXCEPT !.readyState = "CLOSING"] ELSE ws

\* One socket's turn in the interval callback: terminate it when it has not
\* answered the last ping, otherwise mark it and ping it.
heartbeat(ws) ==
  IF ~ws.isAlive THEN [ws EXCEPT !.readyState = "CLOSING"]
  ELSE [ws EXCEPT !.isAlive = FALSE]

\* setInterval(..., 30000): every socket of wss.clients has its turn; the
\* terminated ones leave their user's set, the entry stays.
Tick ==
  /\ wssClients # {}
  /\ \A c \in ConnIds : conns[c].silentTicks < MaxTicks
  /\ LET dead == {c \in wssClients : ~conns[c].isAlive} IN
     /\ conns' = [c \in ConnIds |->
          IF c \notin wssClients THEN conns[c]
          ELSE [heartbeat(conns[c]) EXCEPT
                  !.silentTicks = IF conns[c].readyState = "OPEN"
                                     /\ ~conns[c].responsive
                                    THEN @ + 1 ELSE @]]
     /\ clients' = [u \in DOMAIN clients |->
                      SelectSeq(clients[u], LAMBDA c : c \notin dead)]
  /\ UNCHANGED <<tasks, notifications, reqs, issued, attempts, pushed,
               completedJobs, hook>>

\* The sockets a send to these users reaches, in the order of the loops:
\* the users as listed, each user's OPEN sockets as they were added.
RECURSIVE targets(_)
targets(userIds) ==
  IF userIds = <<>> THEN <<>>
  ELSE (IF Head(userIds) \in DOMAIN clients
          THEN SelectSeq(clients[Head(userIds)],
                         LAMBDA c : conns[c].readyState = "OPEN")
          ELSE <<>>)
       \o targets(Tail(userIds))

RECURSIVE sends(_, _, _)
\* client.send on each socket in turn; a send that throws ends the loops.
sends(socks, data, failing) ==
  IF socks = <<>> THEN [threw |-> FALSE, sent |-> <<>>]
  ELSE IF Head(socks) \in failing THEN [threw |-> TRUE, sent |-> <<>>]
  ELSE LET rest == sends(Tail(socks), data, failing) IN
       [threw |-> rest.threw,
        sent  |-> <<[conn |-> Head(socks), type |-> data.type,
                     title |-> data.title, taskId |-> data.taskId]>>
                  \o rest.sent]

\* sendToUsers reading the sockets of a user that has no entry.
sendToUsersNoGuard(userIds, data, failing) ==
  IF \E i \in 1..Len(userIds) : userIds[i] \notin DOMAIN clients
    THEN [threw |-> TRUE, sent |-> <<>>]
    ELSE sends(targets(userIds), data, failing)

\* sendToUsers: a user without an entry is skipped.
sendToUsers(userIds, data, failing) ==
  sends(targets(userIds), data, failing)

\* sendToUser writing to every socket of the user's set, whatever its state.
sendToUserAnyState(userId, data, failing) ==
  sends(IF userId \in DOMAIN clients THEN clients[userId] ELSE <<>>,
        data, failing)

\* sendToUser: the same for one user.
sendToUser(userId, data, failing) ==
  sends(targets(<<userId>>), data, failing)

\* ------------------------------------------- the browser's notification hook
MAX_RECONNECT_ATTEMPTS == 5

\* The effect before it has run: no socket, no timer, no attempt counted.
\* ws is the readyState of wsRef.current, attempts is
\* reconnectAttemptsRef.current, timer is the delay of the pending reconnect
\* timeout, 0 when none is pending.  History: delays are the delays of the
\* timeouts set since the last open, opens counts the opens, afterCleanup
\* tells that a socket was made after the cleanup.
NoEffect ==
  [effect |-> "none", ws |-> "none", attempts |-> 0, timer |-> 0,
   delays |-> <<>>, opens |-> 0, afterCleanup |-> FALSE]

Min(a, b) == IF a <= b THEN a ELSE b

\* The backoff growing by one second per attempt.
backoffTimeLinear(n) == Min(1000 * (n + 1), 30000)

\* Math.min(1000 * Math.pow(2, reconnectAttemptsRef.current), 30000)
backoffTime(n) == Min(1000 * 2^n, 30000)

\* connectWebSocket: a new socket, connecting, is put in wsRef.
connectWebSocket(h) == [h EXCEPT !.ws = "CONNECTING"]

\* The effect runs for a user with a session token.
Mount ==
  /\ hook.effect = "none"
  /\ hook' = connectWebSocket([hook EXCEPT !.effect = "active"])
  /\ UNCHANGED <<tasks, notifications, reqs, issued, attempts, conns, clients,
                 pushed, completedJobs>>

\* ws.onopen: the counter is reset and the timeout of the ref is cleared.
OnOpen ==
  /\ hook.ws = "CONNECTING"
  /\ hook.opens < MaxOpens
  /\ hook' = [hook EXCEPT !.ws = "OPEN", !.attempts = 0, !.timer = 0,
                          !.delays = <<>>, !.opens = @ + 1]
  /\ UNCHANGED <<tasks, notifications, reqs, issued, attempts, conns, clients,
                 pushed, completedJobs>>

\* ws.onerror: ws.close().
OnError ==
  /\ hook.ws \in {"CONNECTING", "OPEN"}
  /\ hook' = [hook EXCEPT !.ws = "CLOSING"]
  /\ UNCHANGED <<tasks, notifications, reqs, issued, attempts, conns, clients,
                 pushed, completedJobs>>

\* ws.onclose: below the maximum a reconnect is scheduled after the backoff.
OnClose ==
  /\ hook.ws \in {"OPEN", "CLOSING"}
  /\ hook' = IF hook.attempts < MAX_RECONNECT_ATTEMPTS
               THEN [hook EXCEPT !.ws = "CLOSED",
                                 !.timer = backoffTime(hook.attempts),
                                 !.delays = Append(@, backoffTime(hook.attempts))]
               ELSE [hook EXCEPT !.ws = "CLOSED"]
  /\ UNCHANGED <<tasks, notifications, reqs, issued, attempts, conns, clients,
                 pushed, completedJobs>>

\* The reconnect timeout fires: the counter goes up and a socket is made.
Reconnect ==
  /\ hook.timer # 0
  /\ hook' = connectWebSocket(
       [hook EXCEPT !.timer = 0, !.attempts = @ + 1,
                    !.afterCleanup = @ \/ hook.effect = "cleaned"])
  /\ UNCHANGED <<tasks, notifications, reqs, issued, attempts, conns, clients,
                 pushed, completedJobs>>

\* The effect's cleanup: wsRef.current.close(), which starts the closing of
\* a socket that is connecting or open, and clearTimeout of the ref.
Cleanup ==
  /\ hook.effect = "active"
  /\ hook' = [hook EXCEPT
       !.effect = "cleaned",
       !.ws = IF @ \in {"CONNECTING", "OPEN"} THEN "CLOSING" ELSE @,
       !.timer = 0]
  /\ UNCHANGED <<tasks, notifications, reqs, issued, attempts, conns, clients,
                 pushed, completedJobs>>

Init ==
  /\ tasks = <<>>
  /\ notifications = <<>>
  /\ reqs = [r \in Slots |-> Idle]
  /\ issued = 0
  /\ attempts = [t \in 1..MaxTasks |-> 0]
  /\ conns = [c \in ConnIds |-> NoConn]
  /\ clients = [u \in {} |-> <<>>]
  /\ pushed = <<>>
  /\ completedJobs = [p \in ProviderIds |-> 0]
  /\ hook = NoEffect

\* ----------------------------------------------------------- notifications
RECURSIVE RowsFor(_, _, _, _)
\* userIds.map(userId => storage.createNotification({...})) under
\* Promise.all: one row per element, in the order of the provider rows.
RowsFor(providers, type, title, taskId) ==
  IF providers = {} THEN <<>>
  ELSE LET p == CHOOSE q \in providers : \A o \in providers : q.id <= o.id
       IN  <<[userId |-> p.userId, type |-> type, title |-> title,
              taskId |-> taskId, providerId |-> Absent, read |-> FALSE,
              readBy |-> NoUser]>>
           \o RowsFor(providers \ {p}, type, title, taskId)

\* storage.createNotification: one new row per call.
createNotification(table, row) == Append(table, row)

RECURSIVE createNotifications(_, _)
\* The createNotification calls of one fan-out, each adding its row.
createNotifications(table, rows) ==
  IF rows = <<>> THEN table
  ELSE createNotifications(createNotification(table, Head(rows)), Tail(rows))

RECURSIVE providerUserIds(_)
\* providers.map(p => p.userId), in the order of the provider rows.
providerUserIds(providers) ==
  IF providers = {} THEN <<>>
  ELSE LET p == CHOOSE q \in providers : \A o \in providers : q.id <= o.id
       IN  <<p.userId>> \o providerUserIds(providers \ {p})

\* The fan-out that goes straight to the push and persists no row.
notifyNewTaskNoRows(task, providers) == <<>>

notifyNewTask(task, providers) ==
  RowsFor(providers, NEW_TASK, TitleNewTask, task.id)

\* The provider handed to notifyTaskAccepted is a service_providers row.
HasUser(provider) == "user" \in DOMAIN provider

\* notifyTaskAccepted builds the client's message from
\* provider.user.firstName before its first store call: on a provider
\* without a user property that read throws and nothing is persisted.
notifyTaskAccepted(task, provider, client) ==
  IF ~HasUser(provider)
    THEN [threw |-> TRUE, rows |-> <<>>]
    ELSE [threw |-> FALSE,
          rows  |-> <<[userId |-> client, type |-> TASK_ACCEPTED,
                       title |-> TitleAccepted, taskId |-> task.id,
                       providerId |-> provider.id, read |-> FALSE,
                       readBy |-> NoUser]>>
                    \o RowsFor({p \in getServiceProvidersByCategory(task.categoryId) :
                                  p.userId # provider.userId},
                               TASK_ACCEPTED, TitleUnavailable, task.id)]

\* ------------------------------------------------- POST /api/tasks (router)
\* Request bodies: a category, and optionally the status and acceptedById
\* columns, which insertTaskSchema does not omit.
InvalidPayload == [valid |-> FALSE, categoryId |-> 1, status |-> "absent",
                   acceptedById |-> Absent]

CreatePayloads ==
  { [valid |-> TRUE, categoryId |-> c, status |-> "absent",
     acceptedById |-> Absent] : c \in Categories }
  \cup { [valid |-> TRUE, categoryId |-> 1, status |-> "accepted",
          acceptedById |-> Absent],
         [valid |-> TRUE, categoryId |-> 1, status |-> "absent",
          acceptedById |-> 1],
         InvalidPayload }

\* db.insert(tasks).values(task).returning(): the columns the payload does
\* not carry take the column defaults (status 'open', the rest null).
createTask(payload, clientId) ==
  [id |-> Len(tasks) + 1, clientId |-> clientId,
   categoryId |-> payload.categoryId,
   status |-> IF payload.status = "absent" THEN "open" ELSE payload.status,
   acceptedById |-> IF payload.acceptedById = Absent THEN Null
                    ELSE payload.acceptedById,
   acceptedAt |-> Null, completedAt |-> Null]

PostTask(r, actor, payload) ==
  LET rq == NewReq("create", actor, 0) IN
  IF ~isAuthenticated(actor)
    THEN /\ Issue(r, Respond(rq, "Unauthorized"))
         /\ UNCHANGED <<tasks, notifications>>
  ELSE IF ~payload.valid
    THEN /\ Issue(r, Respond(rq, "ServerError"))
         /\ UNCHANGED <<tasks, notifications>>
  ELSE /\ Len(tasks) < MaxTasks
       /\ tasks' = Append(tasks, createTask(payload, actor))
       /\ Issue(r, [rq EXCEPT !.pc = "notifyNewTask",
                              !.created = Len(tasks) + 1,
                              !.task = createTask(payload, actor)])
       /\ UNCHANGED notifications

\* getServiceProvidersByCategory, and notifyNewTask up to the end of its
\* Promise.all: the rows are in the store.
PostTaskNotify(r) ==
  /\ reqs[r].kind = "create" /\ reqs[r].pc = "notifyNewTask"
  /\ LET task == reqs[r].task
         providers == getServiceProvidersByCategory(task.categoryId)
     IN  /\ notifications' = createNotifications(notifications,
                                                 notifyNewTask(task, providers))
         /\ reqs' = [reqs EXCEPT ![r].pc = "push"]
  /\ UNCHANGED <<tasks, issued, attempts, conns, clients, pushed,
               completedJobs, hook>>

\* The rest of notifyNewTask, wsService.sendToUsers, then res.status(201);
\* what sendToUsers throws goes to next(err).  The sockets whose send throws
\* are the environment's choice.
PostTaskPush(r) ==
  /\ reqs[r].kind = "create" /\ reqs[r].pc = "push"
  /\ LET task == reqs[r].task
         providers == getServiceProvidersByCategory(task.categoryId)
         userIds == providerUserIds(providers)
         data == [type |-> NEW_TASK, title |-> TitleNewTask, taskId |-> task.id]
     IN  \E failing \in SUBSET SetOf(targets(userIds)) :
           LET out == sendToUsers(userIds, data, failing) IN
           /\ pushed' = pushed \o out.sent
           /\ reqs' = [reqs EXCEPT ![r] =
                Return(Respond([@ EXCEPT !.connected =
                                  {u \in SetOf(userIds) : targets(<<u>>) # <<>>}],
                               IF out.threw THEN "ServerError" ELSE "Created"))]
  /\ UNCHANGED <<tasks, notifications, issued, attempts, conns, clients,
               completedJobs, hook>>

\* ------------------------------------------ POST /api/tasks (registerRoutes)
PostTaskRoutes(r, actor, payload) ==
  LET rq == NewReq("createRoutes", actor, 0) IN
  IF ~isAuthenticated(actor)
    THEN /\ Issue(r, Respond(rq, "Unauthorized"))
         /\ UNCHANGED <<tasks, notifications>>
  ELSE IF ~payload.valid
    THEN /\ Issue(r, Respond(rq, "ValidationError"))
         /\ UNCHANGED <<tasks, notifications>>
  ELSE /\ Len(tasks) < MaxTasks
       /\ tasks' = Append(tasks, createTask(payload, actor))
       /\ Issue(r, [Respond(rq, "Created") EXCEPT
                      !.created = Len(tasks) + 1])
       /\ UNCHANGED notifications

\* ------------------------------------------ POST /api/tasks/:taskId/accept
\* The test made on the status column instead of the acceptor.
alreadyAcceptedByStatus(task) == task.status = "accepted"

\* if (task.acceptedById): the test made before the transaction and again
\* on the task re-read inside it.
alreadyAccepted(task) == task.acceptedById # Null

\* The callback without its re-check: it writes whatever it re-reads.
acceptCallbackNoRecheck(tx, taskId, provider, now) ==
  LET updated == updateTask(tx[taskId],
                   [status |-> "accepted", acceptedById |-> provider.id,
                    acceptedAt |-> now])
  IN  [threw |-> FALSE, tasks |-> [tx EXCEPT ![taskId] = updated],
       result |-> updated]

\* The callback that computes the accepted task and does not write it.
acceptCallbackNoWrite(tx, taskId, provider, now) ==
  LET currentTask == tx[taskId] IN
  IF alreadyAccepted(currentTask)
    THEN [threw |-> TRUE, tasks |-> tx, result |-> NoTask]
    ELSE [threw |-> FALSE, tasks |-> tx,
          result |-> updateTask(currentTask,
                       [status |-> "accepted", acceptedById |-> provider.id,
                        acceptedAt |-> now])]

\* The callback handed to storage.transaction: re-read the task, refuse it
\* when it has an acceptor, otherwise write the acceptance.
acceptCallback(tx, taskId, provider, now) ==
  LET currentTask == tx[taskId] IN
  IF alreadyAccepted(currentTask)
    THEN [threw |-> TRUE, tasks |-> tx, result |-> NoTask]
    ELSE LET updated == updateTask(currentTask,
                          [status |-> "accepted", acceptedById |-> provider.id,
                           acceptedAt |-> now])
         IN  [threw |-> FALSE, tasks |-> [tx EXCEPT ![taskId] = updated],
              result |-> updated]

\* storage.transaction(cb): cb runs against the store as one indivisible
\* step; given what cb did on the store, a cb that threw leaves the store as
\* it was and the others' writes are kept.
transaction(out, store) ==
  IF out.threw THEN [out EXCEPT !.tasks = store] ELSE out

\* The category test left out.
sameCategoryAlways(provider, task) == TRUE

\* provider.categoryId !== task.categoryId is what refuses the provider.
sameCategory(provider, task) == provider.categoryId = task.categoryId

\* The test on the provider profile never refusing.
noProviderNever(provider) == FALSE

\* if (!provider): the caller has no row in service_providers.
noProvider(provider) == provider = NoProvider

\* isAuthenticated, getTask, and the two tests on what it returned.
AcceptBegin(r, actor, taskId) ==
  /\ LET task == getTask(taskId)
         rq == [NewReq("accept", actor, taskId) EXCEPT !.seen = task]
     IN  Issue(r,
           IF ~isAuthenticated(actor) THEN Respond(rq, "Unauthorized")
           ELSE IF task = NoTask THEN Respond(rq, "NotFound")
           ELSE IF alreadyAccepted(task) THEN Respond(rq, "AlreadyAccepted")
           ELSE [rq EXCEPT !.pc = "getProvider", !.task = task])
  /\ UNCHANGED <<tasks, notifications>>

AcceptGetProvider(r) ==
  /\ reqs[r].kind = "accept" /\ reqs[r].pc = "getProvider"
  /\ LET rq == reqs[r]
         provider == getServiceProviderByUserId(rq.actor)
     IN  reqs' = [reqs EXCEPT ![r] =
           IF noProvider(provider)
             THEN Return(Respond(rq, "NotProvider"))
           ELSE IF ~sameCategory(provider, rq.task)
             THEN Return(Respond(rq, "CategoryMismatch"))
           ELSE [rq EXCEPT !.pc = "transaction", !.provider = provider]]
  /\ UNCHANGED <<tasks, notifications, issued, attempts, conns, clients, pushed,
               completedJobs, hook>>

AcceptTransaction(r) ==
  /\ reqs[r].kind = "accept" /\ reqs[r].pc = "transaction"
  /\ LET rq == reqs[r]
         out == transaction(acceptCallback(tasks, rq.taskId, rq.provider, issued),
                            tasks)
     IN  /\ tasks' = out.tasks
         /\ reqs' = [reqs EXCEPT ![r] =
              IF out.threw
                THEN [Respond(rq, "AlreadyAccepted") EXCEPT
                        !.pc = "notify", !.reachedTx = TRUE,
                        !.updatedTask = ResObject]
                ELSE [rq EXCEPT !.pc = "notify", !.reachedTx = TRUE,
                                !.committed = TRUE,
                                !.updatedTask = out.result]]
  /\ attempts' = [attempts EXCEPT ![reqs[r].taskId] = @ + 1]
  /\ UNCHANGED <<notifications, issued, conns, clients, pushed,
               completedJobs, hook>>

\* getUser, notifyTaskAccepted, res.json(updatedTask); what
\* notifyTaskAccepted throws goes to next(err).  Once its rows are in the
\* store notifyTaskAccepted sends to the client, then to the other
\* providers.
AcceptNotify(r) ==
  /\ reqs[r].kind = "accept" /\ reqs[r].pc = "notify"
  /\ LET rq == reqs[r]
         client == getUser(rq.task.clientId)
         sent == notifyTaskAccepted(rq.updatedTask, rq.provider, client)
         others == providerUserIds(
                     {p \in getServiceProvidersByCategory(rq.updatedTask.categoryId) :
                        p.userId # rq.provider.userId})
         toClient == [type |-> TASK_ACCEPTED, title |-> TitleAccepted,
                      taskId |-> rq.updatedTask.id]
         toOthers == [type |-> TASK_ACCEPTED, title |-> TitleUnavailable,
                      taskId |-> rq.updatedTask.id]
     IN  IF sent.threw
           THEN /\ reqs' = [reqs EXCEPT ![r] = Return(Respond(rq, "ServerError"))]
                /\ UNCHANGED <<notifications, pushed>>
           ELSE \E failing \in SUBSET SetOf(targets(<<client>> \o others)) :
                  LET first == sendToUser(client, toClient, failing)
                      second == IF first.threw
                                  THEN [threw |-> TRUE, sent |-> <<>>]
                                  ELSE sendToUsers(others, toOthers, failing)
                  IN  /\ notifications' =
                           createNotifications(notifications, sent.rows)
                      /\ pushed' = pushed \o first.sent \o second.sent
                      /\ reqs' = [reqs EXCEPT ![r] =
                           Return(Respond([rq EXCEPT !.connected =
                                             {u \in SetOf(<<client>> \o others) :
                                                targets(<<u>>) # <<>>}],
                                          IF second.threw THEN "ServerError"
                                          ELSE "OK"))]
  /\ UNCHANGED <<tasks, issued, attempts, conns, clients,
               completedJobs, hook>>

\* ------------------------------------------------------ PUT /api/tasks/:id
\* req.body goes to updateTask as it is: any column, any value.
PutBodies ==
  { [status |-> st, acceptedById |-> Absent] : st \in taskStatuses }
  \cup { [status |-> "absent", acceptedById |-> Null],
         [status |-> "absent", acceptedById |-> 2] }

PutBegin(r, actor, taskId, body) ==
  /\ LET rq == NewReq("put", actor, taskId)
         task == getTask(taskId)
     IN  Issue(r,
           IF ~isAuthenticated(actor) THEN Respond(rq, "Unauthorized")
           ELSE IF task = NoTask THEN Respond(rq, "NotFound")
           ELSE IF task.clientId # actor
             THEN Respond(rq, "Forbidden")
           ELSE [rq EXCEPT !.pc = "update", !.body = body])
  /\ UNCHANGED <<tasks, notifications>>

PutUpdate(r) ==
  /\ reqs[r].kind = "put" /\ reqs[r].pc = "update"
  /\ tasks' = [tasks EXCEPT ![reqs[r].taskId] = updateTask(@, reqs[r].body)]
  /\ reqs' = [reqs EXCEPT ![r] = Return(Respond(@, "OK"))]
  /\ UNCHANGED <<notifications, issued, attempts, conns, clients, pushed,
               completedJobs, hook>>

\* ---------------------------------------------------- markNotificationAsRead
\* storage.updateNotification: the columns given replace the row's.
updateNotification(row, data) == [row EXCEPT !.read = data.read]

\* markNotificationAsRead(notificationId, userId): the row of that id is
\* updated with read: true; userId is not used.  readBy records the caller.
MarkNotificationAsRead(notificationId, userId) ==
  /\ notificationId \in 1..Len(notifications)
  /\ notifications' = [notifications EXCEPT ![notificationId] =
       [updateNotification(@, [read |-> TRUE]) EXCEPT !.readBy = userId]]
  /\ UNCHANGED <<tasks, reqs, issued, attempts, conns, clients, pushed,
                 completedJobs, hook>>

\* The response has gone out and the handler has returned.
Finish(r) ==
  /\ reqs[r].pc = "done"
  /\ reqs' = [reqs EXCEPT ![r] = Idle]
  /\ UNCHANGED <<tasks, notifications, issued, attempts, conns, clients, pushed,
               completedJobs, hook>>

\* ------------------------------------------------------------ specification
TaskIds      == 1..MaxTasks
CreateActors == {NoUser, ClientUser}
AcceptActors == {NoUser} \cup Users
PutActors    == {NoUser, ClientUser, 11}

Next ==
  \/ \E r \in Slots, a \in CreateActors, p \in CreatePayloads : PostTask(r, a, p)
  \/ \E r \in Slots : PostTaskNotify(r)
  \/ \E r \in Slots : PostTaskPush(r)
  \/ \E r \in Slots, a \in CreateActors, p \in CreatePayloads : PostTaskRoutes(r, a, p)
  \/ \E r \in Slots, a \in AcceptActors, t \in TaskIds : AcceptBegin(r, a, t)
  \/ \E r \in Slots : AcceptGetProvider(r)
  \/ \E r \in Slots : AcceptTransaction(r)
  \/ \E r \in Slots : AcceptNotify(r)
  \/ \E r \in Slots, a \in PutActors, t \in TaskIds, b \in PutBodies : PutBegin(r, a, t, b)
  \/ \E r \in Slots : PutUpdate(r)
  \/ \E r \in Slots : Finish(r)

Spec == Init /\ [][Next]_vars

\* Creation and acceptance alone: no request rewrites a task behind the
\* accept handler's back.
NextAccept ==
  \/ \E r \in Slots, a \in CreateActors, p \in CreatePayloads : PostTask(r, a, p)
  \/ \E r \in Slots : PostTaskNotify(r)
  \/ \E r \in Slots : PostTaskPush(r)
  \/ \E r \in Slots, a \in AcceptActors, t \in TaskIds : AcceptBegin(r, a, t)
  \/ \E r \in Slots : AcceptGetProvider(r)
  \/ \E r \in Slots : AcceptTransaction(r)
  \/ \E r \in Slots : AcceptNotify(r)
  \/ \E r \in Slots : Finish(r)

SpecAccept == Init /\ [][NextAccept]_vars

\* The push channel by itself: upgrades, closes and the heartbeat.
NextChannel ==
  \/ \E c \in ConnIds, k \in Tokens : UpgradeBegin(c, k)
  \/ \E c \in ConnIds : UpgradeSession(c)
  \/ \E c \in ConnIds : PeerClose(c)
  \/ \E c \in ConnIds : CloseEvent(c)
  \/ \E c \in ConnIds : Pong(c)
  \/ \E c \in ConnIds : StopResponding(c)
  \/ Tick

SpecChannel == Init /\ [][NextChannel]_vars

\* Task creation with its fan-out while the providers' connections come
\* and go: the client sends plain payloads, the providers valid tokens.
PlainPayloads == {p \in CreatePayloads :
                    p.valid /\ p.status = "absent" /\ p.acceptedById = Absent}
ValidTokens   == {k \in Tokens : hasUser(getSession(k))}

NextPush ==
  \/ \E c \in ConnIds, k \in ValidTokens : UpgradeBegin(c, k)
  \/ \E c \in ConnIds : UpgradeSession(c)
  \/ \E c \in ConnIds : PeerClose(c)
  \/ \E c \in ConnIds : CloseEvent(c)
  \/ \E r \in Slots, p \in PlainPayloads : PostTask(r, ClientUser, p)
  \/ \E r \in Slots : PostTaskNotify(r)
  \/ \E r \in Slots : PostTaskPush(r)

SpecPush == Init /\ [][NextPush]_vars

\* The three handlers that write tasks, called without a user, by the
\* client and by one provider: plain payloads, one body.
NextAuth ==
  \/ \E r \in Slots, a \in CreateActors, p \in PlainPayloads : PostTask(r, a, p)
  \/ \E r \in Slots : PostTaskNotify(r)
  \/ \E r \in Slots : PostTaskPush(r)
  \/ \E r \in Slots, a \in {NoUser, 11, ClientUser}, t \in TaskIds :
       AcceptBegin(r, a, t)
  \/ \E r \in Slots : AcceptGetProvider(r)
  \/ \E r \in Slots : AcceptTransaction(r)
  \/ \E r \in Slots : AcceptNotify(r)
  \/ \E r \in Slots, a \in {NoUser, ClientUser}, t \in TaskIds :
       PutBegin(r, a, t, [status |-> "completed", acceptedById |-> Absent])
  \/ \E r \in Slots : PutUpdate(r)
  \/ \E r \in Slots : Finish(r)

SpecAuth == Init /\ [][NextAuth]_vars

\* The rows of the fan-outs of creation, marked read by the users.
NotificationIds == 1..(MaxTasks * Cardinality(serviceProviders))

NextRead ==
  \/ \E r \in Slots, a \in CreateActors, p \in PlainPayloads : PostTask(r, a, p)
  \/ \E r \in Slots : PostTaskNotify(r)
  \/ \E r \in Slots : PostTaskPush(r)
  \/ \E r \in Slots : Finish(r)
  \/ \E notificationId \in NotificationIds, userId \in Users :
       MarkNotificationAsRead(notificationId, userId)

SpecRead == Init /\ [][NextRead]_vars

\* The browser's hook by itself.
NextClient ==
  \/ Mount
  \/ OnOpen
  \/ OnError
  \/ OnClose
  \/ Reconnect
  \/ Cleanup

SpecClient == Init /\ [][NextClient]_vars

\* Creation while a provider connects, under the event loop's scheduling: a
\* continuation whose await has resolved is run.
NextLive ==
  \/ \E c \in ConnIds, token \in {"stale", "t11"} : UpgradeBegin(c, token)
  \/ \E c \in ConnIds : UpgradeSession(c)
  \/ \E r \in Slots, p \in PlainPayloads : PostTask(r, ClientUser, p)
  \/ \E r \in Slots : PostTaskNotify(r)
  \/ \E r \in Slots : PostTaskPush(r)
  \/ \E r \in Slots : Finish(r)

\* A handler's continuation: the step that follows a resolved await.
Continue(r) ==
  \/ PostTaskNotify(r)
  \/ PostTaskPush(r)

SpecLive ==
  /\ Init /\ [][NextLive]_vars
  /\ WF_vars(\E r \in Slots : Continue(r))

\* ================================================================== claims
AcceptSlots == {r \in Slots : reqs[r].kind = "accept"}
Finished(r) == reqs[r].pc = "done"

\* An accept succeeds when its update of the task is committed.
Succeeded(r) == reqs[r].committed

\* The rows of the notifications table for a user, a type, a title, a task.
Rows(userId, type, title, taskId) ==
  {i \in 1..Len(notifications) :
     /\ notifications[i].userId = userId
     /\ notifications[i].type = type
     /\ notifications[i].title = title
     /\ notifications[i].taskId = taskId}

\* Two accept requests of different providers that both found the task
\* without an acceptor when they read it.
Racing(r1, r2) ==
  /\ r1 # r2
  /\ reqs[r1].taskId = reqs[r2].taskId
  /\ reqs[r1].actor # reqs[r2].actor
  /\ reqs[r1].reachedTx /\ reqs[r2].reachedTx
  /\ Finished(r1) /\ Finished(r2)

\* C1: of two concurrent accept requests of different providers for the
\* same unaccepted task, whatever the interleaving of their store accesses,
\* exactly one succeeds, the other is answered AlreadyAccepted, and once
\* both have completed the task's acceptedById is the winner's provider id.
C1_Exclusive ==
  \A r1 \in AcceptSlots, r2 \in AcceptSlots :
    (Racing(r1, r2) /\ Succeeded(r1)) =>
       /\ ~Succeeded(r2)
       /\ reqs[r2].response = "AlreadyAccepted"
       /\ tasks[reqs[r1].taskId].acceptedById =
            getServiceProviderByUserId(reqs[r1].actor).id

\* C1: and when the two are the only ones to have run their transaction on
\* the task, one of them does succeed.
C1_OneWins ==
  \A r1 \in AcceptSlots, r2 \in AcceptSlots :
    (Racing(r1, r2) /\ attempts[reqs[r1].taskId] = 2) =>
      (Succeeded(r1) \/ Succeeded(r2))

C2_AcceptedByImmutable ==
  [][\A t \in 1..Len(tasks) :
       tasks[t].acceptedById # Null =>
         tasks'[t].acceptedById = tasks[t].acceptedById]_vars

\* C3: in every state, a task has an acceptor exactly when its status is
\* accepted, in-progress or completed.
C3_AcceptedIffStatus ==
  \A t \in 1..Len(tasks) :
    (tasks[t].acceptedById # Null) <=>
      (tasks[t].status \in {"accepted", "in-progress", "completed"})

\* An accept request of an authenticated caller that found the task with an
\* acceptor when it arrived.
OnAccepted(r) ==
  /\ reqs[r].kind = "accept"
  /\ reqs[r].actor # NoUser
  /\ reqs[r].seen # NoTask
  /\ reqs[r].seen.acceptedById # Null

\* C4: an accept request for a task that already has an acceptor is answered
\* AlreadyAccepted, whoever calls, the acceptor included; it never succeeds
\* and it writes nothing: the task keeps its status, acceptedById and
\* acceptedAt.
C4_RejectsAccepted ==
  \A r \in Slots :
    OnAccepted(r) =>
      /\ Finished(r)
      /\ reqs[r].response = "AlreadyAccepted"
      /\ ~reqs[r].secondResponse
      /\ ~Succeeded(r) /\ ~reqs[r].reachedTx
      /\ tasks[reqs[r].taskId] = reqs[r].seen

\* The acceptor of a task accepted through accept calls accept on it again.
C4_Witness ==
  \E r \in Slots :
    /\ OnAccepted(r)
    /\ reqs[r].seen.acceptedAt # Null
    /\ getServiceProviderByUserId(reqs[r].actor).id = reqs[r].seen.acceptedById
    /\ reqs[r].response = "AlreadyAccepted"

\* A completed accept request of a provider whose category is not the
\* task's.
Mismatched(r) ==
  /\ reqs[r].kind = "accept"
  /\ Finished(r)
  /\ reqs[r].seen # NoTask
  /\ getServiceProviderByUserId(reqs[r].actor) # NoProvider
  /\ getServiceProviderByUserId(reqs[r].actor).categoryId
       # reqs[r].seen.categoryId

\* C5 as stated: every accept of a provider of another category fails with
\* CategoryMismatch, whatever the task's state, and leaves the task as it
\* was.
C5_AlwaysCategoryMismatch ==
  \A r \in Slots :
    Mismatched(r) =>
      /\ reqs[r].response = "CategoryMismatch"
      /\ ~Succeeded(r)

\* C5 amended: every accept of a provider of another category fails and
\* writes nothing; the answer is CategoryMismatch when the task had no
\* acceptor as the handler read it, and AlreadyAccepted when it had one.
C5_MismatchFails ==
  \A r \in Slots :
    Mismatched(r) =>
      /\ reqs[r].response =
           IF reqs[r].seen.acceptedById # Null THEN "AlreadyAccepted"
           ELSE "CategoryMismatch"
      /\ ~Succeeded(r) /\ ~reqs[r].reachedTx

C5_Witness ==
  \E r \in Slots :
    /\ Mismatched(r)
    /\ reqs[r].seen.acceptedById = Null
    /\ reqs[r].response = "CategoryMismatch"

\* C6: a create that answered 201 has left exactly one new_task row for
\* each provider of the task's category, addressed to the provider's user,
\* and none for the providers of other categories.
C6_FanOutComplete ==
  \A r \in Slots :
    (reqs[r].kind \in {"create", "createRoutes"} /\ Finished(r)
       /\ reqs[r].response = "Created") =>
      \A p \in serviceProviders :
        Cardinality(Rows(p.userId, NEW_TASK, TitleNewTask, reqs[r].created)) =
          IF p.categoryId = tasks[reqs[r].created].categoryId THEN 1 ELSE 0

\* C7: once an accept of a task has succeeded and completed, the task's
\* client holds exactly one "Task Accepted" row for it, every other provider
\* of the category exactly one "Task No Longer Available" row, and the
\* acceptor none of those.
C7_PostAcceptanceFanOut ==
  \A r \in AcceptSlots :
    (Finished(r) /\ Succeeded(r)) =>
      LET t == reqs[r].taskId
          winner == getServiceProviderByUserId(reqs[r].actor)
      IN  /\ Cardinality(Rows(tasks[t].clientId, TASK_ACCEPTED,
                              TitleAccepted, t)) = 1
          /\ \A p \in getServiceProvidersByCategory(tasks[t].categoryId) :
               Cardinality(Rows(p.userId, TASK_ACCEPTED, TitleUnavailable, t)) =
                 IF p.id = winner.id THEN 0 ELSE 1

\* C8: when a second provider of the category calls accept after the first
\* provider's accept has completed, it is answered AlreadyAccepted and
\* persists nothing; the client then holds one "Task Accepted" row, the
\* second provider one "Task No Longer Available" row, the first provider
\* and the providers of other categories none.
C8_SequentialScenario ==
  \A r \in Slots :
    (/\ OnAccepted(r) /\ Finished(r)
     /\ reqs[r].seen.acceptedAt # Null
     /\ getServiceProviderByUserId(reqs[r].actor).categoryId
          = reqs[r].seen.categoryId
     /\ getServiceProviderByUserId(reqs[r].actor).id
          # reqs[r].seen.acceptedById
     /\ \A o \in Slots \ {r} : reqs[o] = Idle) =>
      LET t == reqs[r].taskId IN
      /\ reqs[r].response = "AlreadyAccepted"
      /\ Cardinality(Rows(reqs[r].seen.clientId, TASK_ACCEPTED,
                          TitleAccepted, t)) = 1
      /\ Cardinality(Rows(reqs[r].actor, TASK_ACCEPTED,
                          TitleUnavailable, t)) = 1
      /\ \A p \in serviceProviders :
           (p.id = reqs[r].seen.acceptedById
              \/ p.categoryId # reqs[r].seen.categoryId) =>
             Rows(p.userId, TASK_ACCEPTED, TitleUnavailable, t) = {}

\* C9: a task whose status is completed or cancelled keeps that status.
C9_TerminalStatusStays ==
  [][\A t \in 1..Len(tasks) :
       tasks[t].status \in {"completed", "cancelled"} =>
         tasks'[t].status = tasks[t].status]_vars

\* C10: an accept succeeds only on a task whose status is open and whose
\* acceptedById is null.
C10_AcceptsOnlyOpen ==
  [][\A r \in Slots :
       (reqs[r].kind = "accept" /\ ~reqs[r].committed /\ reqs'[r].committed) =>
         /\ tasks[reqs[r].taskId].status = "open"
         /\ tasks[reqs[r].taskId].acceptedById = Null]_vars

\* A create request of the router's handler that has persisted its task and
\* has completed.
Created(r) ==
  /\ reqs[r].kind = "create"
  /\ Finished(r)
  /\ reqs[r].created # 0

\* C11: a create whose fan-out has run has left one new_task row for every
\* provider of the task's category, whether or not that provider had an open
\* connection when the push was made, and when none of them had one the
\* fan-out has completed without error: the request is answered 201.
C11_PersistsWithoutConnections ==
  \A r \in Slots :
    Created(r) =>
      /\ \A p \in getServiceProvidersByCategory(
                     tasks[reqs[r].created].categoryId) :
           Cardinality(Rows(p.userId, NEW_TASK, TitleNewTask,
                            reqs[r].created)) = 1
      /\ (reqs[r].connected = {} => reqs[r].response = "Created")

\* A fan-out that completed with one recipient connected and another not.
C11_Witness ==
  \E r \in Slots :
    /\ Created(r) /\ reqs[r].response = "Created"
    /\ reqs[r].connected # {}
    /\ \E p \in getServiceProvidersByCategory(
                   tasks[reqs[r].created].categoryId) :
         /\ p.userId \notin reqs[r].connected
         /\ Rows(p.userId, NEW_TASK, TitleNewTask, reqs[r].created) # {}

\* C12: a create whose task is persisted answers 201 whatever happens to the
\* pushes, a send that throws included; the task and the rows stay.
C12_PushFailureSwallowed ==
  \A r \in Slots :
    Created(r) =>
      /\ reqs[r].response = "Created"
      /\ reqs[r].created \in 1..Len(tasks)
      /\ \A p \in getServiceProvidersByCategory(
                     tasks[reqs[r].created].categoryId) :
           Rows(p.userId, NEW_TASK, TitleNewTask, reqs[r].created) # {}

\* An accept request of an authenticated caller for a task that does not
\* exist, or of a caller without a provider profile.
Absentee(rq) ==
  /\ rq.kind = "accept"
  /\ isAuthenticated(rq.actor)
  /\ \/ rq.seen = NoTask
     \/ getServiceProviderByUserId(rq.actor) = NoProvider

C14_CreatedOpen ==
  [][Len(tasks') > Len(tasks) =>
       /\ tasks'[Len(tasks')].status = "open"
       /\ tasks'[Len(tasks')].acceptedById = Null]_vars

\* The upgrade requests the server has answered.
Answered(c) == conns[c].readyState \notin {"none", "upgrading"}

\* C15: a socket found in the mapping under a user id came with a token
\* whose session carries that user id, and carries it itself; an upgrade
\* request without a token, or with a token that names no session with a
\* user id, has been rejected and its socket is not in the mapping.
C15_AdmittedAfterAuth ==
  /\ \A u \in DOMAIN clients : \A c \in SetOf(clients[u]) :
       /\ conns[c].token # NoToken
       /\ getSession(conns[c].token).userId = u
       /\ conns[c].userId = u
  /\ \A c \in ConnIds :
       (Answered(c) /\ (conns[c].token = NoToken
                          \/ getSession(conns[c].token) = NoSession)) =>
         /\ conns[c].readyState = "rejected"
         /\ c \notin Mapped

\* One socket admitted, one upgrade rejected for its token.
C15_Witness ==
  /\ \E c \in ConnIds : c \in Mapped /\ conns[c].readyState = "OPEN"
  /\ \E c \in ConnIds :
       conns[c].readyState = "rejected" /\ conns[c].token = "stale"

\* C16: a socket whose close has been handled is not in the mapping, and no
\* user id is mapped to an empty set of sockets.
C16_NoEmptyEntry ==
  /\ \A c \in ConnIds : conns[c].readyState = "CLOSED" => c \notin Mapped
  /\ \A u \in DOMAIN clients : clients[u] # <<>>

\* C17 as stated: a socket whose peer stopped answering is out of the
\* mapping within one heartbeat interval, that is at the first tick after
\* the peer stopped.
C17_GoneAfterOneTick ==
  \A c \in Mapped : conns[c].silentTicks = 0

\* C17 amended: it is terminated and out of the mapping at the second tick
\* after the peer stopped at the latest, the first tick being the one that
\* sends the probe the peer does not answer.
C17_GoneAfterTwoTicks ==
  \A c \in ConnIds :
    /\ c \in Mapped => conns[c].silentTicks <= 1
    /\ conns[c].silentTicks >= 2 => conns[c].readyState \in {"CLOSING", "CLOSED"}

\* A peer that stopped after answering a probe: its socket survived one
\* tick and was terminated by the next.
C17_Witness ==
  \E c \in ConnIds :
    /\ conns[c].silentTicks = 2
    /\ conns[c].readyState = "CLOSING"
    /\ c \notin Mapped

\* C18: a create, accept or PUT request that arrives without an
\* authenticated user is answered 401 on arrival and its handler has
\* returned: no task is changed, no notification added, nothing pushed.
C18_Unauthorized401 ==
  [][\A r \in Slots :
       (reqs[r] = Idle /\ reqs'[r] # Idle /\ reqs'[r].actor = NoUser) =>
         /\ reqs'[r].response = "Unauthorized"
         /\ reqs'[r].pc = "done"
         /\ tasks' = tasks
         /\ notifications' = notifications
         /\ pushed' = pushed]_vars

\* An accept and a PUT without a user have been answered 401 on a task that
\* exists.
C18_Witness ==
  /\ Len(tasks) > 0
  /\ \E r \in Slots : /\ reqs[r].kind = "accept" /\ reqs[r].actor = NoUser
                       /\ reqs[r].response = "Unauthorized"
  /\ \E r \in Slots : /\ reqs[r].kind = "put" /\ reqs[r].actor = NoUser
                       /\ reqs[r].response = "Unauthorized"

\* C19: a task whose status is accepted, in-progress or completed has been
\* accepted through accept, which alone stamps acceptedAt.
C19_EnteredByAccept ==
  \A t \in 1..Len(tasks) :
    tasks[t].status \in {"accepted", "in-progress", "completed"} =>
      tasks[t].acceptedAt # Null

\* C20: an accept request that has completed has sent one response and no
\* second one; the one whose transaction found the task accepted has
\* answered AlreadyAccepted.
C20_OneResponse ==
  \A r \in AcceptSlots :
    Finished(r) =>
      /\ reqs[r].response # "none"
      /\ ~reqs[r].secondResponse
      /\ (reqs[r].reachedTx /\ ~Succeeded(r)) =>
           reqs[r].response = "AlreadyAccepted"

\* C21: the step of an accept request that runs the fan-out comes after its
\* transaction and finds the task with an acceptor in the store, and every
\* task_accepted row or message that a step adds is for a task that has an
\* acceptor in the store before the step.
C21_UpdateBeforeFanOut ==
  [][/\ \A r \in Slots :
          (reqs[r].kind = "accept" /\ reqs[r].pc = "notify"
             /\ reqs'[r].pc # "notify") =>
            /\ reqs[r].reachedTx
            /\ tasks[reqs[r].taskId].acceptedById # Null
     /\ \A i \in (Len(notifications) + 1)..Len(notifications') :
          notifications'[i].type = TASK_ACCEPTED =>
            /\ notifications'[i].taskId \in 1..Len(tasks)
            /\ tasks[notifications'[i].taskId].acceptedById # Null
     /\ \A i \in (Len(pushed) + 1)..Len(pushed') :
          pushed'[i].type = TASK_ACCEPTED =>
            /\ pushed'[i].taskId \in 1..Len(tasks)
            /\ tasks[pushed'[i].taskId].acceptedById # Null]_vars

\* An accept has committed and its fan-out step has run.
C21_Witness ==
  \E r \in AcceptSlots :
    /\ Finished(r) /\ Succeeded(r)
    /\ reqs[r].response \in {"OK", "ServerError"}
    /\ tasks[reqs[r].taskId].acceptedById # Null

\* C22: every message written to a socket is for a user who already has the
\* matching row in the notifications table.
C22_PersistedBeforePush ==
  \A i \in 1..Len(pushed) :
    Rows(conns[pushed[i].conn].userId, pushed[i].type, pushed[i].title,
         pushed[i].taskId) # {}

\* A message has been pushed.
C22_Witness ==
  \E i \in 1..Len(pushed) :
    /\ pushed[i].type = NEW_TASK
    /\ conns[pushed[i].conn].userId \in {p.userId : p \in serviceProviders}

Payload == [type |-> NEW_TASK, title |-> TitleNewTask, taskId |-> 1]
Recipients == {<<11>>, <<13>>, <<11, 12>>, <<12, 11>>, <<13, 12, 11>>}

\* sendToUser applied to each user of the list by itself, one call after the
\* other: what each call has written, in the order of the calls.
RECURSIVE EachUser(_, _, _)
EachUser(userIds, data, failing) ==
  IF userIds = <<>> THEN <<>>
  ELSE sendToUser(Head(userIds), data, failing).sent
       \o EachUser(Tail(userIds), data, failing)

\* The sockets a result has written to.
Written(out) == {out.sent[i].conn : i \in 1..Len(out.sent)}

\* C24: sendToUsers writes what sendToUser called for each user by itself
\* writes, each open socket once, a send that throws for one recipient
\* included, and a user without a connection is skipped without error.
C24_SameAsEachUser ==
  \A userIds \in Recipients, failing \in SUBSET ConnIds :
    LET out == sendToUsers(userIds, Payload, failing) IN
    /\ out.sent = EachUser(userIds, Payload, failing)
    /\ \A i, j \in 1..Len(out.sent) :
         out.sent[i].conn = out.sent[j].conn => i = j
    /\ (\A i \in 1..Len(userIds) : userIds[i] \notin DOMAIN clients) =>
         ~out.threw

\* C25: sendToUser writes to open sockets of that user only and to none
\* twice, whatever the sends do; it returns without error when the user has
\* no connection; and when no send throws it has written to every open
\* socket of the user.
C25_OpenSocketsOfUser ==
  \A userId \in Users, failing \in SUBSET ConnIds :
    LET out == sendToUser(userId, Payload, failing)
        open == {c \in ConnIds : /\ conns[c].readyState = "OPEN"
                                 /\ conns[c].userId = userId}
    IN  /\ Written(out) \subseteq open
        /\ \A i, j \in 1..Len(out.sent) :
             out.sent[i].conn = out.sent[j].conn => i = j
        /\ open = {} => ~out.threw /\ out.sent = <<>>
        /\ failing \cap open = {} => ~out.threw /\ Written(out) = open

\* A user has an open socket and one that is closing, both in the mapping.
C25_Witness ==
  \E c, d \in ConnIds :
    /\ conns[c].readyState = "OPEN" /\ conns[d].readyState = "CLOSING"
    /\ conns[c].userId = 11 /\ conns[d].userId = 11
    /\ {c, d} \subseteq Mapped
    /\ Written(sendToUser(11, Payload, {})) = {c}

\* C26: the step that makes a task completed stamps its completedAt and
\* adds one to the completed jobs of the provider that had accepted it.
C26_CompletionCounted ==
  [][\A t \in 1..Len(tasks) :
       (tasks[t].status # "completed" /\ tasks'[t].status = "completed") =>
         /\ tasks'[t].completedAt # Null
         /\ \A p \in ProviderIds :
              tasks'[t].acceptedById = p =>
                completedJobs'[p] = completedJobs[p] + 1]_vars

\* C27: the step that cancels a task that is neither completed nor cancelled
\* leaves it cancelled, and when a provider had accepted it there is a
\* task_cancelled row for that provider's user afterwards.
C27_CancelNotifies ==
  [][\A t \in 1..Len(tasks) :
       (/\ tasks[t].status \notin {"completed", "cancelled"}
        /\ tasks'[t].status = "cancelled") =>
         \A p \in serviceProviders :
           tasks[t].acceptedById = p.id =>
             \E i \in 1..Len(notifications') :
               /\ notifications'[i].type = TASK_CANCELLED
               /\ notifications'[i].taskId = t
               /\ notifications'[i].userId = p.userId]_vars

\* C28: a notification is marked read only by a call made for its own
\* recipient: a call for another user leaves it as it was.
C28_OnlyOwnRead ==
  \A i \in 1..Len(notifications) :
    notifications[i].read => notifications[i].readBy = notifications[i].userId

\* C29: the timeouts set since the last open are 1000, 2000, 4000, 8000 and
\* 16000 ms in that order, the n-th being min(1000 * 2^n, 30000) for
\* n = 0..4, so at most five reconnects are made without an open; the pending
\* timeout is the last one set; and a socket that is open has its counter
\* at 0.
C29_CappedBackoff ==
  /\ Len(hook.delays) <= 5
  /\ hook.delays = SubSeq(<<1000, 2000, 4000, 8000, 16000>>,
                          1, Len(hook.delays))
  /\ \A n \in 0..4 :
       n < Len(hook.delays) => hook.delays[n + 1] = Min(1000 * 2^n, 30000)
  /\ hook.attempts <= Len(hook.delays)
  /\ hook.timer # 0 => hook.timer = hook.delays[Len(hook.delays)]
  /\ hook.ws = "OPEN" => hook.attempts = 0

\* After an open and a close, five reconnects have been made without an open
\* and the hook has given up.
C29_Witness ==
  /\ hook.opens > 0
  /\ hook.attempts = 5 /\ Len(hook.delays) = 5
  /\ hook.ws = "CLOSED" /\ hook.timer = 0
  /\ hook.effect = "active"

\* C30: once the cleanup has run no reconnect timeout is pending and no
\* socket has been made since.
C30_QuietAfterCleanup ==
  hook.effect = "cleaned" => hook.timer = 0 /\ ~hook.afterCleanup

====
